---- MODULE Spec2Model ----
(***************************************************************************)
(* The issue synchronization controller of linear-tui                      *)
(* (internal/tui, type App): the refresh entry point                       *)
(* refreshIssuesWithFocusChange, its background fetch loop, the pending    *)
(* refresh slot, the generation counter and the issue list they maintain.  *)
(*                                                                         *)
(* Threads.  Callers start refreshIssuesWithFocusChange with `go`, so its  *)
(* body runs on a goroutine of its own and its accesses to the plain       *)
(* fields isLoading, pendingRefresh, pendingRefreshIssueID and             *)
(* pendingRefreshAllowFocusChange interleave, statement by statement, with *)
(* every other goroutine.  The fetch loop is one more goroutine.  A        *)
(* function handed to QueueUpdateDraw runs on the single event-loop        *)
(* goroutine, one function at a time, and QueueUpdateDraw returns after it *)
(* has run (commands.go:3801), so a posting goroutine waits for it: the    *)
(* post and the run are one step of the model.                             *)
(***************************************************************************)
EXTENDS Integers, Sequences, FiniteSets, TLC

\* Bounds of the model.
MaxEvents == 2      \* user-interface events that ask for a refresh
MaxPages == 2       \* pages the fetcher serves before it reports HasNext = false
MaxDetail == 2      \* detail fetches in flight for one issue
MaxPageLen == 2     \* issues on a page of a refresh that runs alone
MaxSelects == 3     \* issues the user selects in the list
MaxCommands == 2    \* expand and collapse commands the user gives
MaxRequests == 3    \* requests one call of Client.FetchIssues sends

IssueIDs == {"i1", "i2", "i3", "i4"}
NoID == ""
TargetIDs == {"i1"}      \* issues a command asks the refresh to select
Nodes == {"team"}
NoNode == "none"

\* SortField
SortByUpdatedAt == "updatedAt"
SortByPriority == "priority"

\* Issue.Priority as the tracker holds it: 0 is no priority, 1 the most urgent.
Priority(id) ==
  CASE id = "i1" -> 0
    [] id = "i2" -> 2
    [] id = "i3" -> 1
    [] OTHER -> 2

\* Users of the tracker; NoID is also the ID used while App.currentUser is nil.
UserIDs == {"u1", "u2"}

\* Issue.Assignee, Issue.Parent and Issue.Children (references by ID, in the
\* order the tracker gives them) as the tracker holds them.
Assignee(id) == IF id \in {"i1", "i3"} THEN "u1" ELSE NoID
Parent(id) ==
  CASE id = "i3" -> "i1"
    [] id = "i4" -> "i2"
    [] OTHER -> NoID
Children(id) ==
  CASE id = "i1" -> <<"i3">>
    [] id = "i2" -> <<"i4">>
    [] OTHER -> <<>>

\* The issue of the tracker with this ID, as a page of the fetcher holds it.
Issue(id) ==
  [id |-> id, priority |-> Priority(id), assignee |-> Assignee(id),
   parent |-> Parent(id), children |-> Children(id)]

\* IssuesSection
IssuesSectionMy == "my"
IssuesSectionOther == "other"

\* The cursor of a first request (nil); the fetcher's cursors are 1, 2, ...
NoCursor == 0

\* Pages the fetcher may return while the user expands and collapses: a
\* parent, a parent behind its child, a parent whose child is not fetched, a
\* child whose parent is not fetched.
TreePages ==
  {<<>>, <<Issue("i1")>>, <<Issue("i3"), Issue("i1")>>, <<Issue("i2")>>, <<Issue("i4")>>}

\* Issues as a list may hold them when its tables are built: any assignee,
\* a parent in the list or out of it, children in any order.
Records ==
  {[id |-> id, priority |-> Priority(id), assignee |-> a, parent |-> p,
    children |-> c, by |-> 0] :
     id \in {"i1", "i2", "i3"}, a \in {NoID} \cup UserIDs, p \in {NoID, "i1", "i2"},
     c \in {<<>>, <<"i3">>, <<"i4", "i3">>}}

\* Lists of up to MaxPageLen of them, no ID twice, no issue its own parent.
RecordLists ==
  {list \in UNION {[1..n -> {x \in Records : x.parent # x.id}] : n \in 0..MaxPageLen} :
     \A i, j \in DOMAIN list : i # j => list[i].id # list[j].id}

\* Nodes of a page the server may return to Client.FetchIssues, and the
\* cursors it may give as endCursor.
ClientPages ==
  {<<>>, <<Issue("i1")>>, <<Issue("i3")>>, <<Issue("i2"), Issue("i3")>>}
EndCursors == {1, 2}

\* Pages the fetcher may return while the user changes the sort field: none
\* in priority order when it holds two issues.
SortPages == {<<>>, <<Issue("i1"), Issue("i2")>>, <<Issue("i3")>>}

Slots == 1..(2 * MaxEvents)

\* Pages the fetcher may return while requests race: at most one issue each.
Pages == {<<>>} \cup {<<Issue(a)>> : a \in {"i1", "i2"}}

\* Pages the fetcher may return to a refresh that runs alone: up to MaxPageLen
\* issues, none of them twice on one page.
ListPages ==
  LET ids == UNION {[1..n -> IssueIDs] : n \in 0..MaxPageLen}
  IN {[i \in DOMAIN p |-> Issue(p[i])] :
        p \in {q \in ids : \A i, j \in DOMAIN q : i # j => q[i] # q[j]}}

VARIABLES
  isLoading,                        \* App.isLoading
  pendingRefresh,                   \* App.pendingRefresh
  pendingRefreshIssueID,            \* App.pendingRefreshIssueID
  pendingRefreshAllowFocusChange,   \* App.pendingRefreshAllowFocusChange
  refreshGeneration,                \* App.refreshGeneration (atomic.Int64)
  issues,                           \* App.issues; field by: the generation of the loop that fetched the record
  selectedIssue,                    \* App.selectedIssue: NoIssue or [id, full]
  fetchingIssueID,                  \* App.fetchingIssueID
  detailFetches,                    \* goroutines of onIssueSelected waiting for fetchIssueByID, per issue
  expandedState,                    \* App.expandedState: the IDs mapped to true
  currentUser,                      \* ID of App.currentUser, NoID for nil
  myIssueRows,                      \* App.myIssueRows
  myIDToIssue,                      \* App.myIDToIssue: its keys
  otherIssueRows,                   \* App.otherIssueRows
  otherIDToIssue,                   \* App.otherIDToIssue: its keys
  activeIssuesSection,              \* App.activeIssuesSection
  selectedNavigation,               \* App.selectedNavigation
  sortField,                        \* App.sortField
  client,                           \* a call of Client.FetchIssues: its locals and what it has sent and got
  focusedPane,                      \* App.focusedPane
  statusBar,                        \* text of App.statusBar, by kind
  g,                                \* the goroutines of refreshIssuesWithFocusChange, by slot
  events,                           \* user-interface events so far
  hist                              \* history: what the claims speak about

vars == <<isLoading, pendingRefresh, pendingRefreshIssueID, pendingRefreshAllowFocusChange,
          refreshGeneration, issues, selectedIssue, fetchingIssueID, detailFetches,
          expandedState, currentUser, myIssueRows, myIDToIssue, otherIssueRows,
          otherIDToIssue, activeIssuesSection, selectedNavigation, sortField, client,
          focusedPane, statusBar, g, events, hist>>

pendingVars == <<pendingRefresh, pendingRefreshIssueID, pendingRefreshAllowFocusChange>>
tableVars == <<myIssueRows, myIDToIssue, otherIssueRows, otherIDToIssue, activeIssuesSection>>
treeVars == <<expandedState, currentUser, tableVars>>
dataVars == <<issues, selectedIssue, fetchingIssueID, detailFetches, treeVars>>
filterVars == <<selectedNavigation, sortField>>

NoIssue == [id |-> NoID, full |-> FALSE]

\* A slot no goroutine uses.
Done ==
  [pc |-> "done", allowFocusChange |-> TRUE, issueID |-> NoID, generation |-> 0,
   params |-> [Node |-> NoNode, OrderBy |-> SortByUpdatedAt], pageCount |-> 0,
   cursor |-> NoCursor,   \* the cursor of the fetch last sent
   page |-> [Issues |-> <<>>, HasNext |-> FALSE, EndCursor |-> NoCursor],
   after |-> NoCursor,
   err |-> FALSE,         \* the fetch last returned has failed
   loadingDue |-> FALSE,
   preempted |-> FALSE,   \* history: replaced before the first page came back
   late |-> 0]            \* history: fetches that came back to the loop once replaced

RequestPCs == {"call", "set", "add", "q_pending", "q_allow", "q_gen", "q_id"}
LoopPCs == {"fetch1", "wait1", "ui_err1", "ui_stale1", "ui_first", "loop",
            "fetchN", "waitN", "ui_errN", "ui_append", "ui_final"}

NoRequest == [allowFocusChange |-> TRUE, issueID |-> NoID]

NoHist ==
  [lastIssued |-> NoRequest,      \* the request the user interface made last
   lastQueueing |-> NoRequest,    \* the call that entered queueIssuesRefresh last
   lastQueued |-> NoRequest,      \* the call of queueIssuesRefresh that returned last
   lastApplied |-> [issueID |-> NoID,
                    params |-> [Node |-> NoNode, OrderBy |-> SortByUpdatedAt]],
                                  \* the loop that applied a page last
   lastSelected |-> NoID,         \* the issue onIssueSelected was called for last
   selects |-> 0,                 \* issues the user has selected in the list
   stale |-> FALSE,               \* a detail fetch came back for an issue no longer fetched
   applied |-> 0,                 \* detail results shown since onIssueSelected was last called
   detailError |-> FALSE,         \* the last detail fetch to come back failed for the issue being fetched
   fetchError |-> FALSE,          \* a fetch has failed
   unserved |-> FALSE,            \* no fetch loop was started since the last request
   command |-> [count |-> 0, id |-> "", issueID |-> NoID],
                                  \* the expand or collapse command given last
   oldDetail |-> [i \in IssueIDs |-> 0],
                                  \* detail fetches in flight that started before the last reset
   resetGeneration |-> 0,         \* the generation the last reset has left
   reset |-> FALSE]               \* resetCachedState has run

\* No call of Client.FetchIssues made yet.
NoCall ==
  [pc |-> "idle",
   orderBy |-> SortByUpdatedAt,   \* params.OrderBy
   after |-> NoCursor,            \* after
   issues |-> <<>>,               \* issues
   result |-> <<>>,               \* the issues returned
   err |-> FALSE,                 \* an error returned
   sent |-> <<>>,                 \* history: the cursor of each request sent
   pages |-> <<>>]                \* history: the pages received

Init ==
  /\ isLoading = FALSE
  /\ pendingRefresh = FALSE
  /\ pendingRefreshIssueID = NoID
  /\ pendingRefreshAllowFocusChange = FALSE
  /\ refreshGeneration = 0
  /\ issues = <<>>
  /\ selectedIssue = NoIssue
  /\ fetchingIssueID = NoID
  /\ detailFetches = [i \in IssueIDs |-> 0]
  /\ expandedState = {}
  /\ currentUser = NoID
  /\ myIssueRows = <<>>
  /\ myIDToIssue = {}
  /\ otherIssueRows = <<>>
  /\ otherIDToIssue = {}
  /\ activeIssuesSection = IssuesSectionOther
  /\ selectedNavigation = NoNode
  /\ sortField = SortByUpdatedAt
  /\ client = NoCall
  /\ focusedPane = "navigation"
  /\ statusBar = ""
  /\ g = [s \in Slots |-> Done]
  /\ events = 0
  /\ hist = NoHist


----------------------------------------------------------------------------
(* Helpers *)

IDsOf(list) == {list[i].id : i \in DOMAIN list}

\* The records of a fetched page, each marked with the generation of the loop
\* that fetched it.
Fetched(page, by) ==
  [i \in DOMAIN page |->
     [id |-> page[i].id, priority |-> page[i].priority, assignee |-> page[i].assignee,
      parent |-> page[i].parent, children |-> page[i].children, by |-> by]]

FreeSlots(gg) == {s \in Slots : gg[s].pc = "done" /\ ~gg[s].loadingDue}

\* `go a.refreshIssuesWithFocusChange(allowFocusChange, issueID...)`: a new
\* goroutine, about to run the function's first statement.
Spawn(gg, allowFocusChange, issueID) ==
  LET s == CHOOSE s \in FreeSlots(gg) : \A t \in FreeSlots(gg) : s <= t
  IN [gg EXCEPT ![s] = [Done EXCEPT !.pc = "call",
                                    !.allowFocusChange = allowFocusChange,
                                    !.issueID = issueID]]

\* The goroutine of slot s has returned; its caller may still have the
\* "Loading..." update to post.
Finished(gg, s) == [gg EXCEPT ![s] = [Done EXCEPT !.loadingDue = gg[s].loadingDue]]

\* History: a request's generation increment has taken effect while these
\* loops had not yet got their first page.
Preempt(gg) ==
  [t \in Slots |-> IF gg[t].pc \in {"fetch1", "wait1"}
                   THEN [gg[t] EXCEPT !.preempted = TRUE] ELSE gg[t]]

\* The comparison of generations as a test for a generation that is ahead of
\* the counter, which no loop's generation ever is.
GenerationNotAhead(s) == g[s].generation <= refreshGeneration

\* The comparison of generations against a value read when the loop captured
\* its own: the loop never sees a later increment.
GenerationAsCaptured(s) == g[s].generation = g[s].generation

\* `generation != a.refreshGeneration.Load()`, negated.
GenerationCurrent(s) == g[s].generation = refreshGeneration

\* History: the count of fetches that came back to loop s after a later
\* increment of the generation, the fetch that comes back now included.
Late(s) == g[s].late + (IF g[s].generation = refreshGeneration THEN 0 ELSE 1)

\* No goroutine of the controller is left.
AtRest == \A s \in Slots : g[s].pc = "done" /\ ~g[s].loadingDue

Issued(allowFocusChange, issueID) ==
  [hist EXCEPT !.lastIssued = [allowFocusChange |-> allowFocusChange,
                               issueID |-> issueID],
               !.unserved = TRUE]

----------------------------------------------------------------------------
(* The user interface asks for a refresh (event-loop goroutine). *)

onNavigationSelected(node) ==
  /\ events < MaxEvents
  /\ events' = events + 1
  /\ selectedNavigation' = node
  /\ g' = Spawn(g, FALSE, NoID)
  /\ hist' = Issued(FALSE, NoID)
  /\ UNCHANGED <<isLoading, pendingVars, refreshGeneration, dataVars,
                 sortField, client, focusedPane, statusBar>>

\* A command that changed or created an issue: `go a.refreshIssues(issue.ID)`.
refreshIssues(issueID) ==
  /\ events < MaxEvents
  /\ events' = events + 1
  /\ g' = Spawn(g, TRUE, issueID)
  /\ hist' = Issued(TRUE, issueID)
  /\ UNCHANGED <<isLoading, pendingVars, refreshGeneration, dataVars,
                 filterVars, client, focusedPane, statusBar>>

\* setSortField: a.sortField = field; go a.refreshIssues()
setSortField(field) ==
  /\ events < MaxEvents
  /\ events' = events + 1
  /\ sortField' = field
  /\ g' = Spawn(g, TRUE, NoID)
  /\ hist' = Issued(TRUE, NoID)
  /\ UNCHANGED <<isLoading, pendingVars, refreshGeneration, dataVars,
                 selectedNavigation, client, focusedPane, statusBar>>

----------------------------------------------------------------------------
(* refreshIssuesWithFocusChange and queueIssuesRefresh, statement by       *)
(* statement, on the caller's goroutine.                                   *)

\* if a.isLoading { a.queueIssuesRefresh(...); return }
refresh_checkLoading(s) ==
  /\ g[s].pc = "call"
  /\ g' = [g EXCEPT ![s].pc = IF isLoading THEN "q_pending" ELSE "set"]
  /\ hist' = IF isLoading
             THEN [hist EXCEPT !.lastQueueing =
                     [allowFocusChange |-> g[s].allowFocusChange,
                      issueID |-> g[s].issueID]]
             ELSE hist
  /\ UNCHANGED <<isLoading, pendingVars, refreshGeneration, dataVars, filterVars, client,
                 focusedPane, statusBar, events>>

\* a.isLoading = true
refresh_setLoading(s) ==
  /\ g[s].pc = "set"
  /\ isLoading' = TRUE
  /\ g' = [g EXCEPT ![s].pc = "add"]
  /\ UNCHANGED <<pendingVars, refreshGeneration, dataVars, filterVars, client,
                 focusedPane, statusBar, events, hist>>

\* generation := a.refreshGeneration.Add(1); go func() {...}(); the caller
\* goes on to post the "Loading..." update.
refresh_start(s) ==
  /\ g[s].pc = "add"
  /\ refreshGeneration' = refreshGeneration + 1
  /\ g' = [Preempt(g) EXCEPT ![s].pc = "fetch1",
                             ![s].generation = refreshGeneration + 1,
                             ![s].loadingDue = TRUE]
  /\ hist' = [hist EXCEPT !.unserved = FALSE]
  /\ UNCHANGED <<isLoading, pendingVars, dataVars, filterVars, client,
                 focusedPane, statusBar, events>>

\* a.QueueUpdateDraw(func() { a.statusBar.SetText("Loading...") })
refresh_showLoading(s) ==
  /\ g[s].loadingDue
  /\ statusBar' = "loading"
  /\ g' = [g EXCEPT ![s].loadingDue = FALSE]
  /\ UNCHANGED <<isLoading, pendingVars, refreshGeneration, dataVars, filterVars, client,
                 focusedPane, events, hist>>

\* a.pendingRefresh = true
queue_setPending(s) ==
  /\ g[s].pc = "q_pending"
  /\ pendingRefresh' = TRUE
  /\ g' = [g EXCEPT ![s].pc = "q_allow"]
  /\ UNCHANGED <<isLoading, pendingRefreshIssueID, pendingRefreshAllowFocusChange,
                 refreshGeneration, dataVars, filterVars, client, focusedPane, statusBar,
                 events, hist>>

\* a.pendingRefreshAllowFocusChange = allowFocusChange
queue_setAllowFocusChange(s) ==
  /\ g[s].pc = "q_allow"
  /\ pendingRefreshAllowFocusChange' = g[s].allowFocusChange
  /\ g' = [g EXCEPT ![s].pc = "q_gen"]
  /\ UNCHANGED <<isLoading, pendingRefresh, pendingRefreshIssueID,
                 refreshGeneration, dataVars, filterVars, client, focusedPane, statusBar,
                 events, hist>>

\* queueIssuesRefresh without its a.refreshGeneration.Add(1).
queue_keepGeneration(s) ==
  /\ g[s].pc = "q_gen"
  /\ g' = [g EXCEPT ![s].pc = "q_id"]
  /\ UNCHANGED <<isLoading, pendingVars, refreshGeneration, dataVars, filterVars, client,
                 focusedPane, statusBar, events, hist>>

\* a.refreshGeneration.Add(1)
queue_addGeneration(s) ==
  /\ g[s].pc = "q_gen"
  /\ refreshGeneration' = refreshGeneration + 1
  /\ g' = [Preempt(g) EXCEPT ![s].pc = "q_id"]
  /\ UNCHANGED <<isLoading, pendingVars, dataVars, filterVars, client, focusedPane,
                 statusBar, events, hist>>

\* a.pendingRefreshIssueID = issueID[0], or "" without one; return
queue_setIssueID(s) ==
  /\ g[s].pc = "q_id"
  /\ pendingRefreshIssueID' = g[s].issueID
  /\ g' = Finished(g, s)
  /\ hist' = [hist EXCEPT !.lastQueued =
                [allowFocusChange |-> g[s].allowFocusChange,
                 issueID |-> g[s].issueID]]
  /\ UNCHANGED <<isLoading, pendingRefresh, pendingRefreshAllowFocusChange,
                 refreshGeneration, dataVars, filterVars, client, focusedPane, statusBar,
                 events>>

----------------------------------------------------------------------------
(* What the event-loop functions call. *)

\* splitIssuesByAssignee comparing the assignee with the ID of no user too.
splitIssuesByAssigneeAnyOwner(list, currentUserID) ==
  [mine |-> SelectSeq(list, LAMBDA x : x.assignee = currentUserID),
   other |-> SelectSeq(list, LAMBDA x : x.assignee # currentUserID)]

\* splitIssuesByAssignee: the issues assigned to the user, and the others.
splitIssuesByAssignee(list, currentUserID) ==
  [mine |-> SelectSeq(list, LAMBDA x : currentUserID # NoID /\ x.assignee = currentUserID),
   other |-> SelectSeq(list, LAMBDA x : ~(currentUserID # NoID /\ x.assignee = currentUserID))]

\* The issues without a parent only.
TopLevelRootsOnly(list) == SelectSeq(list, LAMBDA x : x.parent = NoID)

\* The issues that get a row of their own: those without a parent in the list.
TopLevel(list) ==
  SelectSeq(list, LAMBDA x : x.parent = NoID \/ x.parent \notin IDsOf(list))

\* The row of a top-level issue and, when it is expanded, the rows of the
\* children it refers to.
RowsOf(issue, expanded) ==
  <<[IssueID |-> issue.id, Level |-> 0, ParentID |-> NoID]>> \o
  (IF issue.id \in expanded
   THEN [i \in DOMAIN issue.children |->
           [IssueID |-> issue.children[i], Level |-> 1, ParentID |-> issue.id]]
   ELSE <<>>)

RECURSIVE FlattenRows(_, _)
FlattenRows(top, expanded) ==
  IF top = <<>> THEN <<>>
  ELSE RowsOf(Head(top), expanded) \o FlattenRows(Tail(top), expanded)

\* BuildIssueRows: the rows of a section and the IDs its index holds, those
\* of the issues given and of the children shown.
BuildIssueRows(list, expanded) ==
  LET rows == FlattenRows(TopLevel(list), expanded)
  IN [rows |-> rows, ids |-> IDsOf(list) \cup {rows[i].IssueID : i \in DOMAIN rows}]

\* The rows and indexes of the two sections.
TablesOf(list, currentUserID, expanded) ==
  LET split == splitIssuesByAssignee(list, currentUserID)
  IN [my |-> BuildIssueRows(split.mine, expanded),
      other |-> BuildIssueRows(split.other, expanded)]

\* rebuildIssuesTables: the rows and indexes it builds from the list.
Tables(list) == TablesOf(list, currentUser, expandedState)

\* The section that holds this issue, and the section given when none does.
SectionOf(tables, id, else) ==
  IF id \in tables.my.ids THEN IssuesSectionMy
  ELSE IF id \in tables.other.ids THEN IssuesSectionOther
  ELSE else

\* rebuildIssuesTables choosing the first row of the others before the first
\* row of My Issues.
rebuildIssuesTablesOtherFirst(list, targetIssueID) ==
  LET tables == Tables(list)
  IN IF targetIssueID # NoID /\ targetIssueID \in tables.my.ids \cup tables.other.ids
     THEN targetIssueID
     ELSE IF tables.other.rows # <<>> THEN tables.other.rows[1].IssueID
     ELSE IF tables.my.rows # <<>> THEN tables.my.rows[1].IssueID
     ELSE NoID

\* rebuildIssuesTables: the issue to select, the target when a rebuilt index
\* holds it, else the first row of My Issues, else the first of the others.
rebuildIssuesTables(list, targetIssueID) ==
  LET tables == Tables(list)
  IN IF targetIssueID # NoID /\ targetIssueID \in tables.my.ids \cup tables.other.ids
     THEN targetIssueID
     ELSE IF tables.my.rows # <<>> THEN tables.my.rows[1].IssueID
     ELSE IF tables.other.rows # <<>> THEN tables.other.rows[1].IssueID
     ELSE NoID

\* rebuildIssuesTables building its rows with every issue collapsed, and
\* leaving them so.
tablesRebuiltCollapsed(list, targetIssueID) ==
  LET tables == TablesOf(list, currentUser, {})
      found == targetIssueID # NoID /\ targetIssueID \in tables.my.ids \cup tables.other.ids
  IN /\ myIssueRows' = tables.my.rows
     /\ myIDToIssue' = tables.my.ids
     /\ otherIssueRows' = tables.other.rows
     /\ otherIDToIssue' = tables.other.ids
     /\ activeIssuesSection' =
          IF found THEN SectionOf(tables, targetIssueID, activeIssuesSection)
          ELSE IF tables.my.rows # <<>> THEN IssuesSectionMy
          ELSE IF tables.other.rows # <<>> THEN IssuesSectionOther
          ELSE activeIssuesSection
     /\ expandedState' = {}
     /\ UNCHANGED currentUser

\* rebuildIssuesTables: the tables and the active section it leaves.
tablesRebuilt(list, targetIssueID) ==
  LET tables == Tables(list)
      found == targetIssueID # NoID /\ targetIssueID \in tables.my.ids \cup tables.other.ids
  IN /\ myIssueRows' = tables.my.rows
     /\ myIDToIssue' = tables.my.ids
     /\ otherIssueRows' = tables.other.rows
     /\ otherIDToIssue' = tables.other.ids
     /\ activeIssuesSection' =
          IF found THEN SectionOf(tables, targetIssueID, activeIssuesSection)
          ELSE IF tables.my.rows # <<>> THEN IssuesSectionMy
          ELSE IF tables.other.rows # <<>> THEN IssuesSectionOther
          ELSE activeIssuesSection
     /\ UNCHANGED <<expandedState, currentUser>>

\* onIssueSelected: the list's version of the issue is shown at once and a
\* goroutine fetches the full one (beyond MaxDetail goroutines for one issue
\* the new one is not told from those already waiting).
onIssueSelected(id) ==
  /\ selectedIssue' = [id |-> id, full |-> FALSE]
  /\ fetchingIssueID' = id
  /\ detailFetches' = [detailFetches EXCEPT ![id] = IF @ < MaxDetail THEN @ + 1 ELSE @]

\* The key sortIssuesByPriority compares: no priority sorts last.
PriorityKey(issue) == IF issue.priority = 0 THEN 5 ELSE issue.priority

\* The place sort.SliceStable gives an issue among issues already in order:
\* behind every issue whose key is not greater.
InsertByPriority(sorted, issue) ==
  LET before == SelectSeq(sorted, LAMBDA x : PriorityKey(x) <= PriorityKey(issue))
      behind == SelectSeq(sorted, LAMBDA x : PriorityKey(x) > PriorityKey(issue))
  IN before \o <<issue>> \o behind

\* sortIssuesByPriority: a stable sort by key.
RECURSIVE sortIssuesByPriority(_)
sortIssuesByPriority(list) ==
  IF list = <<>> THEN <<>>
  ELSE InsertByPriority(sortIssuesByPriority(SubSeq(list, 1, Len(list) - 1)),
                        list[Len(list)])

\* if a.sortField == SortByPriority { sortIssuesByPriority(a.issues) }
Sorted(list) == IF sortField = SortByPriority THEN sortIssuesByPriority(list) ELSE list

\* The issue updateIssuesData selects.
SelectedByUpdate(newIssues, issueID) ==
  LET targetIssueID == IF issueID # NoID THEN issueID ELSE selectedIssue.id
  IN rebuildIssuesTables(Sorted(newIssues), targetIssueID)

\* updateIssuesData: the page replaces the list.
updateIssuesData(newIssues, issueID) ==
  LET selected == SelectedByUpdate(newIssues, issueID)
  IN /\ issues' = Sorted(newIssues)
     /\ tablesRebuilt(Sorted(newIssues),
                      IF issueID # NoID THEN issueID ELSE selectedIssue.id)
     /\ IF selected # NoID
        THEN onIssueSelected(selected)
        ELSE /\ selectedIssue' = NoIssue
             /\ UNCHANGED <<fetchingIssueID, detailFetches>>

\* The loop of appendIssuesData with only the issue appended last remembered
\* as existing.
RECURSIVE MergeIssuesLastOnly(_, _)
MergeIssuesLastOnly(list, newIssues) ==
  IF newIssues = <<>> THEN list
  ELSE IF list # <<>> /\ Head(newIssues).id = list[Len(list)].id
       THEN MergeIssuesLastOnly(list, Tail(newIssues))
       ELSE MergeIssuesLastOnly(Append(list, Head(newIssues)), Tail(newIssues))

\* The loop of appendIssuesData without `if existing[issue.ID] { continue }`.
MergeIssuesNoCheck(list, newIssues) == list \o newIssues

\* The loop `for _, issue := range newIssues` of appendIssuesData: issues whose
\* ID the list does not hold yet are appended, in page order.
RECURSIVE MergeIssues(_, _)
MergeIssues(list, newIssues) ==
  IF newIssues = <<>> THEN list
  ELSE IF Head(newIssues).id \in IDsOf(list)
       THEN MergeIssues(list, Tail(newIssues))
       ELSE MergeIssues(Append(list, Head(newIssues)), Tail(newIssues))

\* appendIssuesData without its `if a.sortField == SortByPriority {...}`.
appendIssuesDataUnsorted(newIssues) ==
  LET merged == MergeIssues(issues, newIssues)
      selected == rebuildIssuesTables(merged, selectedIssue.id)
  IN /\ issues' = merged
     /\ tablesRebuilt(merged, selectedIssue.id)
     /\ selectedIssue' = IF selected # NoID THEN [id |-> selected, full |-> FALSE]
                         ELSE NoIssue
     /\ UNCHANGED <<fetchingIssueID, detailFetches>>

\* appendIssuesData, for a page that is not empty.
appendIssuesData(newIssues) ==
  LET merged == Sorted(MergeIssues(issues, newIssues))
      selected == rebuildIssuesTables(merged, selectedIssue.id)
  IN /\ issues' = merged
     /\ tablesRebuilt(merged, selectedIssue.id)
     /\ selectedIssue' = IF selected # NoID THEN [id |-> selected, full |-> FALSE]
                         ELSE NoIssue
     /\ UNCHANGED <<fetchingIssueID, detailFetches>>

\* runQueuedIssuesRefresh, called when the goroutines are gg.
runQueuedIssuesRefresh(gg) ==
  IF ~pendingRefresh
  THEN /\ g' = gg
       /\ UNCHANGED pendingVars
  ELSE /\ pendingRefresh' = FALSE
       /\ pendingRefreshIssueID' = NoID
       /\ pendingRefreshAllowFocusChange' = TRUE
       /\ g' = Spawn(gg, pendingRefreshAllowFocusChange, pendingRefreshIssueID)

----------------------------------------------------------------------------
(* The fetch loop: the goroutine `go func() {...}` of                      *)
(* refreshIssuesWithFocusChange.  A fetch returning and the comparison of  *)
(* generations that follows it are one step: between the two the goroutine *)
(* touches nothing another goroutine can see.                              *)

\* What the fetcher answers to the request loop s has sent: the issues, whether
\* more follow, and the cursor behind this page, the one after the cursor of
\* the request.
FetchedPage(s, ids, hasNext) ==
  [Issues |-> ids, HasNext |-> hasNext, EndCursor |-> g[s].cursor + 1]

\* Pages this loop has had applied by the event loop.
Applied(s) ==
  IF g[s].pc \in {"ui_first", "ui_append"} THEN g[s].pageCount - 1 ELSE g[s].pageCount

\* params := ... a.selectedNavigation ...; the first fetchPage(ctx, params, nil)
\* is sent.
loop_fetchFirst(s) ==
  /\ g[s].pc = "fetch1"
  /\ g' = [g EXCEPT ![s].pc = "wait1",
                    ![s].params = [Node |-> selectedNavigation, OrderBy |-> sortField],
                    ![s].cursor = NoCursor]
  /\ UNCHANGED <<isLoading, pendingVars, refreshGeneration, dataVars, filterVars, client,
                 focusedPane, statusBar, events, hist>>

\* page, err := fetchPage(ctx, params, nil) returns with an error.
fetch_failedFirst(s) ==
  /\ g[s].pc = "wait1"
  /\ g' = [g EXCEPT ![s].pc = "ui_err1", ![s].err = TRUE, ![s].late = Late(s)]
  /\ hist' = [hist EXCEPT !.fetchError = TRUE]
  /\ UNCHANGED <<isLoading, pendingVars, refreshGeneration, dataVars, filterVars, client,
                 focusedPane, statusBar, events>>

\* page, err := fetchPage(ctx, params, nil) returns a page;
\* if generation != a.refreshGeneration.Load() {...}; pageCount++
fetch_returnFirst(s, ids, hasNext) ==
  /\ g[s].pc = "wait1"
  /\ hasNext => 1 < MaxPages
  /\ g' = IF GenerationCurrent(s)
          THEN [g EXCEPT ![s].pc = "ui_first", ![s].pageCount = 1,
                         ![s].page = FetchedPage(s, ids, hasNext),
                         ![s].late = Late(s)]
          ELSE [g EXCEPT ![s].pc = "ui_stale1", ![s].late = Late(s)]
  /\ UNCHANGED <<isLoading, pendingVars, refreshGeneration, dataVars, filterVars, client,
                 focusedPane, statusBar, events, hist>>

\* The update after a failed first fetch without updateStatusBarWithError.
ui_firstPageFailedSilent(s) ==
  /\ g[s].pc = "ui_err1"
  /\ isLoading' = FALSE
  /\ runQueuedIssuesRefresh(Finished(g, s))
  /\ UNCHANGED <<refreshGeneration, dataVars, filterVars, client, focusedPane, statusBar,
                 events, hist>>

\* The update posted at commands.go:3417, after a failed first fetch.
ui_firstPageFailed(s) ==
  /\ g[s].pc = "ui_err1"
  /\ isLoading' = FALSE
  /\ statusBar' = "error"
  /\ runQueuedIssuesRefresh(Finished(g, s))
  /\ UNCHANGED <<refreshGeneration, dataVars, filterVars, client, focusedPane, events, hist>>

\* The update of a replaced loop without its call of runQueuedIssuesRefresh.
ui_firstPageStaleNoDrain(s) ==
  /\ g[s].pc = "ui_stale1"
  /\ isLoading' = FALSE
  /\ g' = Finished(g, s)
  /\ UNCHANGED <<pendingVars, refreshGeneration, dataVars, filterVars, client, focusedPane,
                 statusBar, events, hist>>

\* The update posted at commands.go:3426, by a loop that found itself replaced.
ui_firstPageStale(s) ==
  /\ g[s].pc = "ui_stale1"
  /\ isLoading' = FALSE
  /\ runQueuedIssuesRefresh(Finished(g, s))
  /\ UNCHANGED <<refreshGeneration, dataVars, filterVars, client, focusedPane, statusBar,
                 events, hist>>

\* The update posted at commands.go:3435: the first page is applied;
\* after := page.EndCursor
ui_firstPage(s) ==
  /\ g[s].pc = "ui_first"
  /\ updateIssuesData(Fetched(g[s].page.Issues, g[s].generation), g[s].issueID)
  /\ focusedPane' = IF g[s].allowFocusChange THEN "issues" ELSE focusedPane
  /\ statusBar' = IF g[s].page.HasNext THEN "more" ELSE "info"
  /\ g' = [g EXCEPT ![s].pc = "loop", ![s].after = g[s].page.EndCursor]
  /\ hist' = [hist EXCEPT !.lastApplied = [issueID |-> g[s].issueID,
                                           params |-> g[s].params],
                          !.lastSelected =
                             LET selected == SelectedByUpdate(g[s].page.Issues, g[s].issueID)
                             IN IF selected # NoID THEN selected ELSE @,
                          !.applied =
                             IF SelectedByUpdate(g[s].page.Issues, g[s].issueID) # NoID
                             THEN 0 ELSE @]
  /\ UNCHANGED <<isLoading, pendingVars, refreshGeneration, filterVars, client, events>>

\* The loop left after the first page, whatever page.HasNext says.
loop_checkNextNever(s) ==
  /\ g[s].pc = "loop"
  /\ g' = [g EXCEPT ![s].pc = "ui_final"]
  /\ UNCHANGED <<isLoading, pendingVars, refreshGeneration, dataVars, filterVars, client,
                 focusedPane, statusBar, events, hist>>

\* for page.HasNext { if generation != a.refreshGeneration.Load() { break }
loop_checkNext(s) ==
  /\ g[s].pc = "loop"
  /\ g' = [g EXCEPT ![s].pc = IF g[s].page.HasNext /\ GenerationCurrent(s)
                              THEN "fetchN" ELSE "ui_final"]
  /\ UNCHANGED <<isLoading, pendingVars, refreshGeneration, dataVars, filterVars, client,
                 focusedPane, statusBar, events, hist>>

\* The next fetch sent without the cursor: fetchPage(ctx, params, nil).
loop_fetchNextNoCursor(s) ==
  /\ g[s].pc = "fetchN"
  /\ g' = [g EXCEPT ![s].pc = "waitN", ![s].cursor = NoCursor]
  /\ UNCHANGED <<isLoading, pendingVars, refreshGeneration, dataVars, filterVars, client,
                 focusedPane, statusBar, events, hist>>

\* fetchPage(ctx, params, after) is sent.
loop_fetchNext(s) ==
  /\ g[s].pc = "fetchN"
  /\ g' = [g EXCEPT ![s].pc = "waitN", ![s].cursor = g[s].after]
  /\ UNCHANGED <<isLoading, pendingVars, refreshGeneration, dataVars, filterVars, client,
                 focusedPane, statusBar, events, hist>>

\* nextPage, err := fetchPage(ctx, params, after) returns with an error.
fetch_failedNext(s) ==
  /\ g[s].pc = "waitN"
  /\ g' = [g EXCEPT ![s].pc = "ui_errN", ![s].err = TRUE, ![s].late = Late(s)]
  /\ hist' = [hist EXCEPT !.fetchError = TRUE]
  /\ UNCHANGED <<isLoading, pendingVars, refreshGeneration, dataVars, filterVars, client,
                 focusedPane, statusBar, events>>

\* nextPage, err := fetchPage(ctx, params, after) returns a page;
\* if generation != a.refreshGeneration.Load() { break }; page = nextPage;
\* pageCount++
fetch_returnNext(s, ids, hasNext) ==
  /\ g[s].pc = "waitN"
  /\ hasNext => g[s].pageCount + 1 < MaxPages
  /\ g' = IF GenerationCurrent(s)
          THEN [g EXCEPT ![s].pc = "ui_append", ![s].pageCount = @ + 1,
                         ![s].page = FetchedPage(s, ids, hasNext),
                         ![s].after = g[s].cursor + 1,
                         ![s].late = Late(s)]
          ELSE [g EXCEPT ![s].pc = "ui_final", ![s].late = Late(s)]
  /\ UNCHANGED <<isLoading, pendingVars, refreshGeneration, dataVars, filterVars, client,
                 focusedPane, statusBar, events, hist>>

\* The update posted at commands.go:3455, after a failed later fetch; break.
ui_nextPageFailed(s) ==
  /\ g[s].pc = "ui_errN"
  /\ statusBar' = "error"
  /\ g' = [g EXCEPT ![s].pc = "ui_final"]
  /\ UNCHANGED <<isLoading, pendingVars, refreshGeneration, dataVars, filterVars, client,
                 focusedPane, events, hist>>

\* The update posted at commands.go:3469: a later page is merged.
ui_appendPage(s) ==
  /\ g[s].pc = "ui_append"
  /\ IF g[s].page.Issues = <<>>
     THEN /\ UNCHANGED dataVars
          /\ statusBar' = IF g[s].page.HasNext THEN "more" ELSE statusBar
     ELSE /\ appendIssuesData(Fetched(g[s].page.Issues, g[s].generation))
          /\ statusBar' = IF g[s].page.HasNext THEN "more" ELSE "info"
  /\ g' = [g EXCEPT ![s].pc = "loop"]
  /\ hist' = [hist EXCEPT !.lastApplied = [issueID |-> g[s].issueID,
                                           params |-> g[s].params]]
  /\ UNCHANGED <<isLoading, pendingVars, refreshGeneration, filterVars, client,
                 focusedPane, events>>

\* The update posted at commands.go:3477, when the loop has ended.
ui_refreshCompleted(s) ==
  /\ g[s].pc = "ui_final"
  /\ isLoading' = FALSE
  /\ statusBar' = "info"
  /\ runQueuedIssuesRefresh(Finished(g, s))
  /\ UNCHANGED <<refreshGeneration, dataVars, filterVars, client, focusedPane, events, hist>>

----------------------------------------------------------------------------
(* The goroutine of onIssueSelected: fetchIssueByID returns and the update *)
(* posted at commands.go:3691 runs.                                        *)

\* History: the fetches of the issue, started before the last reset, that are
\* left in flight when one of its fetches has come back; which one it was
\* is open when fetches from before and after the reset are in flight.
OldDetailLeft(id) ==
  {n \in {hist.oldDetail[id] - 1, hist.oldDetail[id]} :
     n >= 0 /\ n <= detailFetches[id] - 1}

\* The update without `if a.fetchingIssueID == issueID`.
detail_fetchedUnchecked(id, ok) ==
  /\ detailFetches[id] > 0
  /\ detailFetches' = [detailFetches EXCEPT ![id] = @ - 1]
  /\ selectedIssue' = IF ok THEN [id |-> id, full |-> TRUE] ELSE selectedIssue
  /\ \E left \in OldDetailLeft(id) :
       hist' = [hist EXCEPT !.stale = @ \/ fetchingIssueID # id,
                            !.applied = IF ok THEN @ + 1 ELSE @,
                            !.detailError = (fetchingIssueID = id /\ ~ok),
                            !.oldDetail[id] = left]
  /\ UNCHANGED <<isLoading, pendingVars, refreshGeneration, issues, fetchingIssueID,
                 treeVars, filterVars, client, focusedPane, statusBar, g, events>>

detail_fetched(id, ok) ==
  /\ detailFetches[id] > 0
  /\ detailFetches' = [detailFetches EXCEPT ![id] = @ - 1]
  /\ selectedIssue' = IF fetchingIssueID = id /\ ok
                      THEN [id |-> id, full |-> TRUE] ELSE selectedIssue
  /\ \E left \in OldDetailLeft(id) :
       hist' = [hist EXCEPT !.stale = @ \/ fetchingIssueID # id,
                            !.applied = IF fetchingIssueID = id /\ ok THEN @ + 1 ELSE @,
                            !.detailError = (fetchingIssueID = id /\ ~ok),
                            !.oldDetail[id] = left]
  /\ UNCHANGED <<isLoading, pendingVars, refreshGeneration, issues, fetchingIssueID,
                 treeVars, filterVars, client, focusedPane, statusBar, g, events>>

\* The user selects an issue of the list: onIssueSelected(issue).
selectIssue(id) ==
  /\ hist.selects < MaxSelects
  /\ id \in IDsOf(issues)
  /\ onIssueSelected(id)
  /\ hist' = [hist EXCEPT !.selects = @ + 1, !.lastSelected = id, !.applied = 0]
  /\ UNCHANGED <<isLoading, pendingVars, refreshGeneration, issues, treeVars,
                 filterVars, client, focusedPane, statusBar, g, events>>

----------------------------------------------------------------------------
(* Client.FetchIssues: one call at a time, the server answering each       *)
(* request with any page.                                                  *)

appVars == <<isLoading, pendingVars, refreshGeneration, dataVars, filterVars,
             focusedPane, statusBar, g, events, hist>>

\* The call: after is nil, issues empty.
client_FetchIssues(orderBy) ==
  /\ client.pc \in {"idle", "done"}
  /\ client' = [NoCall EXCEPT !.pc = "query", !.orderBy = orderBy]
  /\ UNCHANGED appVars

\* c.client.Query(ctx, &query, variables) is sent with "after": after.
client_query ==
  /\ client.pc = "query"
  /\ Len(client.sent) < MaxRequests
  /\ client' = [client EXCEPT !.pc = "wait", !.sent = Append(@, client.after)]
  /\ UNCHANGED appVars

\* The query has failed: return nil, err.
client_queryFailed ==
  /\ client.pc = "wait"
  /\ client' = [client EXCEPT !.pc = "done", !.err = TRUE, !.result = <<>>]
  /\ UNCHANGED appVars

\* The rest of the loop body with `after` left as it was.
client_pageKeepCursor(nodes, hasNextPage, endCursor) ==
  /\ client.pc = "wait"
  /\ hasNextPage => Len(client.pages) + 1 < MaxRequests
  /\ LET all == client.issues \o nodes
         page == [Issues |-> nodes, HasNext |-> hasNextPage, EndCursor |-> endCursor]
     IN client' =
          IF ~hasNextPage
          THEN [client EXCEPT !.pc = "done", !.issues = all, !.pages = Append(@, page),
                              !.result = IF client.orderBy = SortByPriority
                                         THEN sortIssuesByPriority(all) ELSE all]
          ELSE [client EXCEPT !.pc = "query", !.issues = all, !.pages = Append(@, page)]
  /\ UNCHANGED appVars

\* The rest of the loop body leaving the loop when the page has no cursor.
client_pageUntilNoCursor(nodes, hasNextPage, endCursor) ==
  /\ client.pc = "wait"
  /\ hasNextPage => Len(client.pages) + 1 < MaxRequests
  /\ LET all == client.issues \o nodes
         page == [Issues |-> nodes, HasNext |-> hasNextPage, EndCursor |-> endCursor]
     IN client' =
          IF endCursor = NoCursor
          THEN [client EXCEPT !.pc = "done", !.issues = all, !.pages = Append(@, page),
                              !.result = IF client.orderBy = SortByPriority
                                         THEN sortIssuesByPriority(all) ELSE all]
          ELSE [client EXCEPT !.pc = "query", !.issues = all, !.pages = Append(@, page),
                              !.after = endCursor]
  /\ UNCHANGED appVars

\* The query has returned a page: its nodes are appended;
\* if !HasNextPage { break }; after = &nextCursor; and behind the loop the
\* sort by priority and the return.
client_page(nodes, hasNextPage, endCursor) ==
  /\ client.pc = "wait"
  /\ hasNextPage => Len(client.pages) + 1 < MaxRequests
  /\ LET all == client.issues \o nodes
         page == [Issues |-> nodes, HasNext |-> hasNextPage, EndCursor |-> endCursor]
     IN client' =
          IF ~hasNextPage
          THEN [client EXCEPT !.pc = "done", !.issues = all, !.pages = Append(@, page),
                              !.result = IF client.orderBy = SortByPriority
                                         THEN sortIssuesByPriority(all) ELSE all]
          ELSE [client EXCEPT !.pc = "query", !.issues = all, !.pages = Append(@, page),
                              !.after = endCursor]
  /\ UNCHANGED appVars

ClientNext ==
  \/ \E orderBy \in {SortByUpdatedAt, SortByPriority} : client_FetchIssues(orderBy)
  \/ client_query
  \/ client_queryFailed
  \/ \E nodes \in ClientPages, hasNextPage \in BOOLEAN, endCursor \in EndCursors :
       client_page(nodes, hasNextPage, endCursor)

ClientSpec == Init /\ [][ClientNext]_vars

----------------------------------------------------------------------------
(* Expanding and collapsing: toggleIssueExpanded and the commands          *)
(* expand_all and collapse_all, run by the event loop.                     *)

\* ToggleExpanded, ExpandAll and CollapseAll on the map of expanded issues.
ToggleExpanded(state, issueID) ==
  IF issueID \in state THEN state \ {issueID} ELSE state \cup {issueID}
ExpandAll(state, list) ==
  state \cup {list[i].id : i \in {j \in DOMAIN list : list[j].children # <<>>}}
CollapseAll(state) == {}

\* issue.Children of the issue an index holds under this ID: those of the
\* issue of the list, none for a child known by reference only.
ChildrenOf(issueID) ==
  IF issueID \in IDsOf(issues)
  THEN (CHOOSE x \in {issues[i] : i \in DOMAIN issues} : x.id = issueID).children
  ELSE <<>>

\* History: the command given.
Commanded(id, issueID) ==
  /\ hist.command.count < MaxCommands
  /\ hist' = [hist EXCEPT !.command = [count |-> @.count + 1, id |-> id,
                                       issueID |-> issueID]]

\* The rows rebuilt for the expansion given, the section of the issue given
\* made the active one.
rowsRebuilt(expanded, issueID) ==
  LET tables == TablesOf(issues, currentUser, expanded)
  IN /\ expandedState' = expanded
     /\ myIssueRows' = tables.my.rows
     /\ myIDToIssue' = tables.my.ids
     /\ otherIssueRows' = tables.other.rows
     /\ otherIDToIssue' = tables.other.ids
     /\ activeIssuesSection' =
          IF issueID # NoID THEN SectionOf(tables, issueID, activeIssuesSection)
          ELSE activeIssuesSection

\* toggleIssueExpanded without `if len(issue.Children) == 0 { return }`.
toggleIssueExpandedAny(issueID) ==
  /\ Commanded("toggle", issueID)
  /\ IF issueID \notin myIDToIssue \cup otherIDToIssue
     THEN UNCHANGED <<expandedState, tableVars>>
     ELSE rowsRebuilt(ToggleExpanded(expandedState, issueID), issueID)
  /\ UNCHANGED <<isLoading, pendingVars, refreshGeneration, issues, selectedIssue,
                 fetchingIssueID, detailFetches, currentUser, filterVars, client, focusedPane,
                 statusBar, g, events>>

\* toggleIssueExpanded selecting the issue with onIssueSelected once the rows
\* are rebuilt.
toggleIssueExpandedSelecting(issueID) ==
  /\ Commanded("toggle", issueID)
  /\ IF issueID \notin myIDToIssue \cup otherIDToIssue \/ ChildrenOf(issueID) = <<>>
     THEN UNCHANGED <<expandedState, tableVars, selectedIssue, fetchingIssueID,
                      detailFetches>>
     ELSE /\ rowsRebuilt(ToggleExpanded(expandedState, issueID), issueID)
          /\ onIssueSelected(issueID)
  /\ UNCHANGED <<isLoading, pendingVars, refreshGeneration, issues, currentUser,
                 filterVars, client, focusedPane, statusBar, g, events>>

toggleIssueExpanded(issueID) ==
  /\ Commanded("toggle", issueID)
  /\ IF issueID \notin myIDToIssue \cup otherIDToIssue \/ ChildrenOf(issueID) = <<>>
     THEN UNCHANGED <<expandedState, tableVars>>
     ELSE rowsRebuilt(ToggleExpanded(expandedState, issueID), issueID)
  /\ UNCHANGED <<isLoading, pendingVars, refreshGeneration, issues, selectedIssue,
                 fetchingIssueID, detailFetches, currentUser, filterVars, client, focusedPane,
                 statusBar, g, events>>

\* The command expand_all.
expand_all ==
  /\ Commanded("expand_all", NoID)
  /\ rowsRebuilt(ExpandAll(expandedState, issues), selectedIssue.id)
  /\ UNCHANGED <<isLoading, pendingVars, refreshGeneration, issues, selectedIssue,
                 fetchingIssueID, detailFetches, currentUser, filterVars, client, focusedPane,
                 statusBar, g, events>>

\* The command collapse_all.
collapse_all ==
  /\ Commanded("collapse_all", NoID)
  /\ rowsRebuilt(CollapseAll(expandedState), selectedIssue.id)
  /\ UNCHANGED <<isLoading, pendingVars, refreshGeneration, issues, selectedIssue,
                 fetchingIssueID, detailFetches, currentUser, filterVars, client, focusedPane,
                 statusBar, g, events>>

----------------------------------------------------------------------------
(* applySettings: resetCachedState, then loadInitialData, whose goroutine  *)
(* ends in a.refreshIssues().                                              *)
\* resetCachedState with the generation set back to that of a fresh App.
resetCachedStateFromZero ==
  /\ selectedIssue' = NoIssue
  /\ issues' = <<>>
  /\ selectedNavigation' = NoNode
  /\ isLoading' = FALSE
  /\ pendingRefresh' = FALSE
  /\ pendingRefreshIssueID' = NoID
  /\ pendingRefreshAllowFocusChange' = TRUE
  /\ refreshGeneration' = 0
  /\ fetchingIssueID' = NoID
  /\ myIssueRows' = <<>>
  /\ myIDToIssue' = {}
  /\ otherIssueRows' = <<>>
  /\ otherIDToIssue' = {}
  /\ currentUser' = NoID
  /\ activeIssuesSection' = IssuesSectionOther
  /\ expandedState' = {}

resetCachedState ==
  /\ selectedIssue' = NoIssue
  /\ issues' = <<>>
  /\ selectedNavigation' = NoNode
  /\ isLoading' = FALSE
  /\ pendingRefresh' = FALSE
  /\ pendingRefreshIssueID' = NoID
  /\ pendingRefreshAllowFocusChange' = TRUE
  /\ refreshGeneration' = refreshGeneration + 1
  /\ fetchingIssueID' = NoID
  /\ myIssueRows' = <<>>
  /\ myIDToIssue' = {}
  /\ otherIssueRows' = <<>>
  /\ otherIDToIssue' = {}
  /\ currentUser' = NoID
  /\ activeIssuesSection' = IssuesSectionOther
  /\ expandedState' = {}

applySettings ==
  /\ events < MaxEvents
  /\ events' = events + 1
  /\ resetCachedState
  /\ g' = Spawn(g, TRUE, NoID)
  /\ hist' = [Issued(TRUE, NoID) EXCEPT !.reset = TRUE,
                                        !.oldDetail = detailFetches,
                                        !.resetGeneration = refreshGeneration + 1]
  /\ UNCHANGED <<detailFetches, sortField, client, focusedPane, statusBar>>

\* loadInitialData: the current user is fetched and kept when the fetch
\* succeeds (user is NoID when it fails); the goroutine ends in
\* a.refreshIssues().
loadInitialData(user) ==
  /\ events < MaxEvents
  /\ events' = events + 1
  /\ currentUser' = IF user # NoID THEN user ELSE currentUser
  /\ g' = Spawn(g, TRUE, NoID)
  /\ hist' = Issued(TRUE, NoID)
  /\ UNCHANGED <<isLoading, pendingVars, refreshGeneration, issues, selectedIssue,
                 fetchingIssueID, detailFetches, expandedState, tableVars,
                 filterVars, client, focusedPane, statusBar>>

----------------------------------------------------------------------------
UserEvent ==
  \/ \E node \in Nodes : onNavigationSelected(node)
  \/ \E id \in TargetIDs : refreshIssues(id)
  \/ applySettings

RequestStep(s) ==
  \/ refresh_checkLoading(s)
  \/ refresh_setLoading(s)
  \/ refresh_start(s)
  \/ refresh_showLoading(s)
  \/ queue_setPending(s)
  \/ queue_setAllowFocusChange(s)
  \/ queue_addGeneration(s)
  \/ queue_setIssueID(s)

LoopStep(s) ==
  \/ loop_fetchFirst(s)
  \/ loop_checkNext(s)
  \/ loop_fetchNext(s)

FetchReturn(s) ==
  \/ \E ids \in Pages, hasNext \in BOOLEAN : fetch_returnFirst(s, ids, hasNext)
  \/ fetch_failedFirst(s)
  \/ \E ids \in Pages, hasNext \in BOOLEAN : fetch_returnNext(s, ids, hasNext)
  \/ fetch_failedNext(s)

UIUpdate(s) ==
  \/ ui_firstPageFailed(s)
  \/ ui_firstPageStale(s)
  \/ ui_firstPage(s)
  \/ ui_nextPageFailed(s)
  \/ ui_appendPage(s)
  \/ ui_refreshCompleted(s)

Progress ==
  \E s \in Slots : RequestStep(s) \/ LoopStep(s) \/ FetchReturn(s) \/ UIUpdate(s)

\* The refresh controller.  The detail fetches that its page updates start
\* stay in flight: their results touch selectedIssue alone, which no step of
\* the controller reads to decide what it does to the refresh state.
Next == UserEvent \/ Progress

Spec == Init /\ [][Next]_vars

\* Every goroutine that can take a step takes it, every fetch returns and the
\* event loop runs every posted update; the user need not do anything.
FairSpec == Spec /\ WF_vars(Progress)

----------------------------------------------------------------------------
(* One refresh at a time: the user asks for the next refresh when the      *)
(* controller has come to rest.  No request finds a refresh in progress    *)
(* and no loop is replaced; the pages are lists.                           *)

LoneEvent ==
  /\ AtRest
  /\ \/ \E field \in {SortByUpdatedAt, SortByPriority} : setSortField(field)
     \/ \E id \in TargetIDs : refreshIssues(id)

LoneRequestStep(s) ==
  \/ refresh_checkLoading(s)
  \/ refresh_setLoading(s)
  \/ refresh_start(s)
  \/ refresh_showLoading(s)

LoneFetchReturn(s) ==
  \/ \E ids \in ListPages, hasNext \in BOOLEAN : fetch_returnFirst(s, ids, hasNext)
  \/ fetch_failedFirst(s)
  \/ \E ids \in ListPages, hasNext \in BOOLEAN : fetch_returnNext(s, ids, hasNext)
  \/ fetch_failedNext(s)

LoneUIUpdate(s) ==
  \/ ui_firstPageFailed(s)
  \/ ui_firstPage(s)
  \/ ui_nextPageFailed(s)
  \/ ui_appendPage(s)
  \/ ui_refreshCompleted(s)

LoneNext ==
  \/ LoneEvent
  \/ \E s \in Slots :
       LoneRequestStep(s) \/ LoopStep(s) \/ LoneFetchReturn(s) \/ LoneUIUpdate(s)

RefreshSpec == Init /\ [][LoneNext]_vars

----------------------------------------------------------------------------
(* Selecting issues: refreshes one at a time, the user selecting issues of *)
(* the list meanwhile, and the detail fetches coming back in any order.    *)

SelectEvent ==
  \/ AtRest /\ \E id \in TargetIDs : refreshIssues(id)
  \/ \E id \in IssueIDs : selectIssue(id)

SelectFetchReturn(s) ==
  \/ \E ids \in Pages, hasNext \in BOOLEAN : fetch_returnFirst(s, ids, hasNext)
  \/ \E ids \in Pages, hasNext \in BOOLEAN : fetch_returnNext(s, ids, hasNext)

SelectUIUpdate(s) ==
  \/ ui_firstPage(s)
  \/ ui_appendPage(s)
  \/ ui_refreshCompleted(s)

SelectNext ==
  \/ SelectEvent
  \/ \E id \in IssueIDs, ok \in BOOLEAN : detail_fetched(id, ok)
  \/ \E s \in Slots :
       LoneRequestStep(s) \/ LoopStep(s) \/ SelectFetchReturn(s) \/ SelectUIUpdate(s)

SelectSpec == Init /\ [][SelectNext]_vars

----------------------------------------------------------------------------
(* The settings applied while refreshes and detail fetches are under way:  *)
(* the refresh controller with the detail fetches coming back.             *)

ResetEvent ==
  \/ \E id \in TargetIDs : refreshIssues(id)
  \/ applySettings

ResetNext ==
  \/ ResetEvent
  \/ Progress
  \/ \E id \in IssueIDs, ok \in BOOLEAN : detail_fetched(id, ok)

ResetSpec == Init /\ [][ResetNext]_vars

----------------------------------------------------------------------------
(* The tree of issues: refreshes one at a time and, at any time between    *)
(* two updates of the event loop, the user expanding and collapsing.       *)

TreeEvent ==
  /\ AtRest
  /\ \/ \E id \in TargetIDs : refreshIssues(id)
     \/ applySettings

TreeCommand ==
  \/ \E issueID \in IssueIDs : toggleIssueExpanded(issueID)
  \/ expand_all
  \/ collapse_all

TreeFetchReturn(s) ==
  \/ \E ids \in TreePages, hasNext \in BOOLEAN : fetch_returnFirst(s, ids, hasNext)
  \/ \E ids \in TreePages, hasNext \in BOOLEAN : fetch_returnNext(s, ids, hasNext)

TreeNext ==
  \/ TreeEvent
  \/ TreeCommand
  \/ \E s \in Slots :
       LoneRequestStep(s) \/ LoopStep(s) \/ TreeFetchReturn(s) \/ SelectUIUpdate(s)

TreeSpec == Init /\ [][TreeNext]_vars

----------------------------------------------------------------------------
(* The tables of any list: the list, the user and the expansion are any    *)
(* the fetcher and the user may have left, the tables are those built from *)
(* them, and the user expands and collapses.                               *)

TablesInit ==
  /\ isLoading = FALSE
  /\ pendingRefresh = FALSE
  /\ pendingRefreshIssueID = NoID
  /\ pendingRefreshAllowFocusChange = FALSE
  /\ refreshGeneration = 0
  /\ issues \in RecordLists
  /\ selectedIssue = NoIssue
  /\ fetchingIssueID = NoID
  /\ detailFetches = [i \in IssueIDs |-> 0]
  /\ expandedState \in SUBSET {"i1", "i3"}
  /\ currentUser \in {NoID, "u1"}
  /\ myIssueRows = TablesOf(issues, currentUser, expandedState).my.rows
  /\ myIDToIssue = TablesOf(issues, currentUser, expandedState).my.ids
  /\ otherIssueRows = TablesOf(issues, currentUser, expandedState).other.rows
  /\ otherIDToIssue = TablesOf(issues, currentUser, expandedState).other.ids
  /\ activeIssuesSection = IssuesSectionOther
  /\ selectedNavigation = NoNode
  /\ sortField = SortByUpdatedAt
  /\ client = NoCall
  /\ focusedPane = "navigation"
  /\ statusBar = ""
  /\ g = [s \in Slots |-> Done]
  /\ events = 0
  /\ hist = NoHist

TablesSpec == TablesInit /\ [][TreeCommand]_vars

----------------------------------------------------------------------------
(* The issue a refresh selects: the application loads its data, the user   *)
(* with it or not, and refreshes follow one at a time, with pages that are *)
(* lists.                                                                  *)

PickEvent ==
  /\ AtRest
  /\ \/ \E user \in {NoID} \cup UserIDs : loadInitialData(user)
     \/ \E id \in TargetIDs : refreshIssues(id)

PickNext ==
  \/ PickEvent
  \/ \E s \in Slots :
       LoneRequestStep(s) \/ LoopStep(s) \/ LoneFetchReturn(s) \/ LoneUIUpdate(s)

PickSpec == Init /\ [][PickNext]_vars

----------------------------------------------------------------------------
(* The sort field changed at any time: the user sets it while a refresh is *)
(* under way, the request is queued and the loop under way is replaced.    *)

SortEvent == \E field \in {SortByUpdatedAt, SortByPriority} : setSortField(field)

SortFetchReturn(s) ==
  \/ \E ids \in SortPages, hasNext \in BOOLEAN : fetch_returnFirst(s, ids, hasNext)
  \/ \E ids \in SortPages, hasNext \in BOOLEAN : fetch_returnNext(s, ids, hasNext)

SortUIUpdate(s) ==
  \/ ui_firstPageStale(s)
  \/ ui_firstPage(s)
  \/ ui_appendPage(s)
  \/ ui_refreshCompleted(s)

SortNext ==
  \/ SortEvent
  \/ \E s \in Slots :
       RequestStep(s) \/ LoopStep(s) \/ SortFetchReturn(s) \/ SortUIUpdate(s)

SortSpec == Init /\ [][SortNext]_vars

----------------------------------------------------------------------------
(* Claims *)

\* Loops with a page fetch sent and not yet returned.
Fetching == {s \in Slots : g[s].pc \in {"wait1", "waitN"}}

\* The event loop runs a page update of loop s: updateIssuesData or
\* appendIssuesData.
Applies(s) == g[s].pc \in {"ui_first", "ui_append"} /\ g'[s].pc = "loop"

\* The event loop runs the last update of loop s, the one that ends in
\* runQueuedIssuesRefresh.
Terminates(s) == g[s].pc \in {"ui_err1", "ui_stale1", "ui_final"} /\ g'[s].pc # g[s].pc

\* A goroutine of refreshIssuesWithFocusChange is started in this step.
Started(t) == g'[t].pc = "call" /\ g[t].pc # "call"

\* No goroutine of the controller is left, no refresh is marked in progress
\* and none is pending.
Idle ==
  /\ \A s \in Slots : g[s].pc = "done" /\ ~g[s].loadingDue
  /\ ~isLoading
  /\ ~pendingRefresh

\* C1: at most one fetch loop has a page fetch in flight at any time.
C1_OneLoopFetching == Cardinality(Fetching) <= 1

\* C2: a page is applied to the issue list only when the generation its loop
\* captured is the current generation at the moment of the update.
C2_ApplyOnlyCurrent ==
  [][\A s \in Slots : Applies(s) => g[s].generation = refreshGeneration]_vars

C4_FollowUpIsLastCall ==
  [][\A s \in Slots :
       Terminates(s) /\ pendingRefresh =>
         \E t \in Slots, last \in {hist.lastQueueing, hist.lastQueued} :
           /\ Started(t)
           /\ g'[t].allowFocusChange = last.allowFocusChange
           /\ g'[t].issueID = last.issueID]_vars

\* C5: the last update of a loop, on whichever path the loop ended, clears the
\* loading flag and the pending request, and starts a refresh with the stored
\* issue ID and focus flag exactly when a request was pending.
C5_TerminationDrains ==
  [][\A s \in Slots :
       Terminates(s) =>
         /\ ~isLoading'
         /\ ~pendingRefresh'
         /\ IF pendingRefresh
            THEN \E t \in Slots :
                   /\ Started(t)
                   /\ g'[t].allowFocusChange = pendingRefreshAllowFocusChange
                   /\ g'[t].issueID = pendingRefreshIssueID
            ELSE \A t \in Slots : ~Started(t)]_vars

C5_Witness ==
  /\ ~isLoading /\ ~pendingRefresh /\ ~hist.reset
  /\ pendingRefreshAllowFocusChange /\ pendingRefreshIssueID = NoID
  /\ hist.lastQueued = [allowFocusChange |-> FALSE, issueID |-> NoID]
  /\ \E t \in Slots : g[t].pc = "call" /\ ~g[t].allowFocusChange

\* C6: when the controller has come to rest, no fetch having failed and no
\* reset having run, the loop that applied a page last had the target issue of
\* the latest request and fetched with the filter in force at that request.
C6_NewestWins ==
  (Idle /\ events > 0 /\ ~hist.fetchError /\ ~hist.reset) =>
     /\ hist.lastApplied.issueID = hist.lastIssued.issueID
     /\ hist.lastApplied.params.Node = selectedNavigation

\* C7: a loop whose generation was no longer current when its fetch came back
\* changes neither the issue list nor the status bar.
C7_StaleLoopSilent ==
  [][\A s \in Slots :
       (g[s].late > 0 /\ g'[s].pc # g[s].pc) =>
         /\ issues' = issues
         /\ statusBar' = "error" => statusBar = "error"]_vars

\* C8: at most one fetch comes back to a loop after the generation moved past
\* the one it captured.
C8_OneWastedFetch == \A s \in Slots : g[s].late <= 1

C8_Witness == \E s \in Slots : g[s].late = 1 /\ g[s].pc = "ui_final" /\ g[s].pageCount = 1

\* C9: all records of the issue list were fetched by one loop.
C9_OneGeneration ==
  \A i, j \in DOMAIN issues : issues[i].by = issues[j].by

\* C10: when no goroutine of the controller can take a step, the controller
\* is idle: the loading flag is false and no request is pending.
C10_RestIsIdle == ~ENABLED Progress => ~isLoading /\ ~pendingRefresh

\* A goroutine takes the step that starts a refresh (commands.go:3376), the
\* step of queueIssuesRefresh at commands.go:3331, any step of
\* queueIssuesRefresh; the event loop runs applySettings.
StartsRefresh(s) == g[s].pc = "add" /\ g'[s].pc = "fetch1"
QueuesGeneration(s) == g[s].pc = "q_gen" /\ g'[s].pc = "q_id"
QueueingStep(s) == g[s].pc \in {"q_pending", "q_allow", "q_gen", "q_id"} /\ g'[s] # g[s]
Resets == events' = events + 1 /\ hist'.lastIssued = NoRequest

\* C11: the generation never decreases, starting a refresh, queueing one and
\* the reset each increase it, and no loop holds a generation greater than
\* the current one.
C11_GenerationOnlyGrows ==
  [][/\ refreshGeneration' >= refreshGeneration
     /\ (Resets \/ \E s \in Slots : StartsRefresh(s) \/ QueuesGeneration(s))
          => refreshGeneration' > refreshGeneration
     /\ \A s \in Slots : g'[s].generation <= refreshGeneration']_vars

C11_Witness ==
  /\ hist.reset
  /\ refreshGeneration = 3
  /\ \E s \in Slots : g[s].pc = "wait1" /\ g[s].generation = 1

\* C12: a request that finds a refresh in progress stores the pending
\* request and returns: no step of queueIssuesRefresh changes the generation,
\* the loading flag or the issue list.
C12_QueueingKeepsGeneration ==
  [][\A s \in Slots :
       QueueingStep(s) =>
         /\ refreshGeneration' = refreshGeneration
         /\ isLoading' = isLoading
         /\ issues' = issues]_vars

\* A goroutine takes a step of refreshIssuesWithFocusChange up to the start of
\* the loop, or of queueIssuesRefresh.
CallStep(s) == g[s].pc \in RequestPCs /\ g'[s] # g[s]

\* C12, amended: each call of refreshIssuesWithFocusChange increments the
\* generation by one, where it starts the loop or, when a refresh is in
\* progress, in queueIssuesRefresh, and at no other step; queueIssuesRefresh
\* leaves the loading flag and the issue list unchanged.
C12_OneIncrementPerCall ==
  [][\A s \in Slots :
       CallStep(s) =>
         /\ refreshGeneration' =
              IF StartsRefresh(s) \/ QueuesGeneration(s)
              THEN refreshGeneration + 1 ELSE refreshGeneration
         /\ QueueingStep(s) => isLoading' = isLoading /\ issues' = issues]_vars

C12_Witness ==
  \E s \in Slots : g[s].pc = "q_id" /\ isLoading /\ pendingRefresh /\ refreshGeneration = 2

\* The event loop runs the update of loop s that applies its first page, a
\* later page.
AppliesFirst(s) == g[s].pc = "ui_first" /\ g'[s].pc = "loop"
AppliesLater(s) == g[s].pc = "ui_append" /\ g'[s].pc = "loop"

\* The page loop s holds, as the update that applies it hands it over.
PageOf(s) == Fetched(g[s].page.Issues, g[s].generation)

\* C13: once a later page has been merged, merging the same page again
\* yields the same issue list and the same selected issue.
C13_MergeIdempotent ==
  [][\A s \in Slots :
       (AppliesLater(s) /\ PageOf(s) # <<>>) =>
         /\ Sorted(MergeIssues(issues', PageOf(s))) = issues'
         /\ rebuildIssuesTables(issues', selectedIssue'.id) = selectedIssue'.id]_vars

C13_Witness ==
  \E s \in Slots :
    /\ g[s].pc = "loop" /\ g[s].pageCount = 2
    /\ Len(g[s].page.Issues) = 2
    /\ IDsOf(g[s].page.Issues) \subseteq IDsOf(issues)
    /\ Len(issues) = 3
    /\ sortField = SortByPriority

Unseen(list, page) == SelectSeq(page, LAMBDA x : x.id \notin IDsOf(list))

\* C15: the first page replaces the issue list by the page's records; a
\* later page leaves the records held in place and appends, in page order,
\* those of its records whose ID the list does not hold.
C15_ReplaceThenAppend ==
  [][\A s \in Slots :
       /\ AppliesFirst(s) => issues' = PageOf(s)
       /\ AppliesLater(s) => issues' = issues \o Unseen(issues, PageOf(s))]_vars

\* res holds the records of list, ordered by priority 1, 2, 3, 4 and then
\* none, records of one priority in the order they have in list.
IsStableSortOf(res, list) ==
  /\ Len(res) = Len(list)
  /\ \A i, j \in DOMAIN res : i < j => PriorityKey(res[i]) <= PriorityKey(res[j])
  /\ \A k \in 1..5 :
       SelectSeq(res, LAMBDA x : PriorityKey(x) = k)
         = SelectSeq(list, LAMBDA x : PriorityKey(x) = k)

\* C15, amended: the list after a first page is the page, the list after a
\* later page is the list before it followed by the page's records not yet
\* held, in page order; while the sort field is priority, it is that list
\* sorted by priority, records of equal priority keeping their order.
C15_ReplaceThenAppendSorted ==
  [][\A s \in Slots :
       LET first == PageOf(s)
           later == issues \o Unseen(issues, PageOf(s))
       IN /\ AppliesFirst(s) =>
               IF sortField = SortByPriority THEN IsStableSortOf(issues', first)
               ELSE issues' = first
          /\ AppliesLater(s) =>
               IF sortField = SortByPriority /\ PageOf(s) # <<>>
               THEN IsStableSortOf(issues', later)
               ELSE issues' = later]_vars

\* Under the priority sort a later page has brought a record that now stands
\* before a record the list held.
C15_Witness ==
  \E s \in Slots :
    /\ sortField = SortByPriority
    /\ g[s].pc = "loop" /\ g[s].pageCount = 2
    /\ Len(issues) = 3 /\ Len(g[s].page.Issues) = 1
    /\ issues[1].id = g[s].page.Issues[1].id

\* C16: a loop sends its first fetch without a cursor and every later fetch
\* with the end cursor of the page it fetched last, when that page has been
\* applied; the n-th page it has applied is the n-th page of the fetcher.
C16_PagesInFetchOrder ==
  [][\A s \in Slots :
       /\ (g[s].pc = "fetch1" /\ g'[s].pc = "wait1") => g'[s].cursor = NoCursor
       /\ (g[s].pc = "fetchN" /\ g'[s].pc = "waitN") =>
            /\ g'[s].cursor = g[s].page.EndCursor
            /\ Applied(s) = g[s].pageCount
       /\ (AppliesFirst(s) \/ AppliesLater(s)) =>
            /\ g[s].page.EndCursor = g[s].pageCount
            /\ Applied(s) = g[s].pageCount - 1]_vars

C16_Witness ==
  \E s \in Slots :
    g[s].pc = "ui_append" /\ g[s].cursor = 1 /\ g[s].page.EndCursor = 2 /\ g[s].pageCount = 2

\* C17: a refresh that runs alone goes on fetching exactly while the page
\* it fetched last reports more; each page it fetches is applied by one
\* update, and a page whose IDs the list does not hold adds every one of its
\* records once.
C17_EveryPageOnce ==
  [][\A s \in Slots :
       /\ AppliesFirst(s) =>
            IDsOf(issues') = IDsOf(PageOf(s)) /\ Len(issues') = Len(PageOf(s))
       /\ (AppliesLater(s) /\ IDsOf(PageOf(s)) \cap IDsOf(issues) = {}) =>
            /\ IDsOf(issues') = IDsOf(issues) \cup IDsOf(PageOf(s))
            /\ Len(issues') = Len(issues) + Len(PageOf(s))
       /\ (g[s].pc = "loop" /\ g'[s].pc # "loop") =>
            (g'[s].pc = "fetchN") = g[s].page.HasNext
       /\ (g[s].pc = "wait1" /\ g'[s].pc # "wait1" /\ ~g'[s].err) =>
            g'[s].pc = "ui_first" /\ g'[s].pageCount = 1
       /\ (g[s].pc = "waitN" /\ g'[s].pc # "waitN" /\ ~g'[s].err) =>
            g'[s].pc = "ui_append" /\ g'[s].pageCount = g[s].pageCount + 1
       /\ (g[s].pc = "ui_final" /\ g'[s].pc # "ui_final" /\ ~g[s].err) =>
            ~g[s].page.HasNext /\ Applied(s) = g[s].pageCount]_vars

\* Two pages of two issues each, no issue on both, have been fetched and
\* applied, and the loop is about to end.
C17_Witness ==
  \E s \in Slots :
    /\ g[s].pc = "ui_final" /\ ~g[s].err
    /\ g[s].pageCount = 2 /\ Len(g[s].page.Issues) = 2 /\ Len(issues) = 4

\* C18: a loop whose first fetch fails fetches no further page and changes
\* no record; its last update shows the error, clears the loading flag and
\* starts the pending request if there is one.
C18_FirstPageErrorAborts ==
  [][\A s \in Slots :
       /\ (g[s].pc \in {"fetch1", "wait1"} /\ g'[s] # g[s]) => issues' = issues
       /\ (g[s].pc = "wait1" /\ g'[s].err) => g'[s].pc = "ui_err1"
       /\ (g[s].pc = "ui_err1" /\ g'[s].pc # "ui_err1") =>
            /\ g[s].pageCount = 0
            /\ issues' = issues
            /\ statusBar' = "error"
            /\ ~isLoading' /\ ~pendingRefresh'
            /\ g'[s].pc \notin LoopPCs
            /\ pendingRefresh = (\E t \in Slots : Started(t))]_vars

\* The first fetch of a refresh has failed, the error is shown, and the
\* issue list is the one an earlier refresh left.
C18_Witness ==
  /\ statusBar = "error" /\ ~isLoading /\ ~hist.reset
  /\ hist.fetchError
  /\ AtRest
  /\ issues # <<>>
  /\ hist.lastApplied.issueID # hist.lastIssued.issueID

\* C19: when a fetch after the first has failed, the loop fetches no further
\* page, its last update leaves the records merged so far in the list, and
\* the error is the status shown when the refresh has ended.
C19_LaterErrorShown ==
  [][\A s \in Slots :
       /\ (g[s].pc = "ui_errN" /\ g'[s].pc # "ui_errN") =>
            g'[s].pc = "ui_final" /\ issues' = issues
       /\ (g[s].pc = "ui_final" /\ g[s].err /\ g'[s].pc # "ui_final") =>
            issues' = issues /\ statusBar' = "error"]_vars

\* The update of a detail fetch for this issue runs.
DetailCompletes(id) ==
  /\ detailFetches'[id] < detailFetches[id]
  /\ detailFetches[id] = MaxDetail \/ detailFetches'[id] = detailFetches[id] - 1

\* C20: the result of a detail fetch changes the selection only when the
\* fetch was for the issue onIssueSelected was called for last, and then to
\* that issue; a result for an issue selected before that one leaves the
\* selection as it is.
C20_LastSelectedWins ==
  [][\A id \in IssueIDs :
       DetailCompletes(id) =>
         \/ selectedIssue' = selectedIssue
         \/ id = hist.lastSelected /\ selectedIssue' = [id |-> id, full |-> TRUE]]_vars

\* Two issues selected one after the other, the detail of the first having
\* come back after the second was selected.
C20_Witness ==
  /\ hist.stale
  /\ hist.selects >= 1
  /\ selectedIssue.id = hist.lastSelected
  /\ fetchingIssueID = hist.lastSelected

\* C21: once the result of a detail fetch has been shown, the result of
\* another fetch of the same issue, started before it, is dropped: between
\* two calls of onIssueSelected at most one detail result is written into
\* the selection.
C21_AppliedOnce == hist.applied <= 1

\* The update of a detail fetch runs with an error for the issue selected.
DetailFails(id) ==
  /\ DetailCompletes(id)
  /\ hist'.detailError
  /\ fetchingIssueID = id
  /\ selectedIssue.id = id

\* C22: when the detail fetch of the selected issue fails, the selection
\* taken from the list stays as it is, the list is kept, and the status bar
\* shows the error.
C22_DetailErrorShown ==
  [][\A id \in IssueIDs :
       DetailFails(id) =>
         /\ selectedIssue' = selectedIssue
         /\ issues' = issues
         /\ statusBar' = "error"]_vars

\* A step of a loop that took its generation before the last reset.
OldLoopStep(s) ==
  /\ g[s].pc \in LoopPCs
  /\ g[s].generation < hist.resetGeneration
  /\ g'[s] # g[s]

\* The update of a detail fetch started before the last reset runs.
OldDetailCompletes(id) ==
  /\ DetailCompletes(id)
  /\ hist'.oldDetail[id] < hist.oldDetail[id]

\* C23: resetCachedState empties the issue list, the selection, the queued
\* request and the issue being fetched, and no loop and no detail fetch
\* started before it changes the issue list or the selection afterwards.
C23_ResetCutsOff ==
  [][/\ Resets => /\ issues' = <<>>
                  /\ selectedIssue' = NoIssue
                  /\ ~pendingRefresh' /\ pendingRefreshIssueID' = NoID
                  /\ fetchingIssueID' = NoID
     /\ \A s \in Slots : OldLoopStep(s) => UNCHANGED <<issues, selectedIssue>>
     /\ \A id \in IssueIDs :
          OldDetailCompletes(id) => UNCHANGED <<issues, selectedIssue>>]_vars

\* A step of toggleIssueExpanded, expand_all or collapse_all.
CommandStep == hist'.command.count = hist.command.count + 1

\* C24: no step of a refresh changes the expansion of the issues; only
\* toggleIssueExpanded, expand_all, collapse_all and resetCachedState do.
C24_ExpansionSurvivesRefresh ==
  [][expandedState' # expandedState => CommandStep \/ Resets]_vars

\* An issue is expanded that a later refresh has taken off the list.
C24_Witness ==
  /\ "i1" \in expandedState
  /\ issues # <<>>
  /\ "i1" \notin IDsOf(issues)

\* A step of toggleIssueExpanded for this issue.
ToggleStep(issueID) ==
  /\ CommandStep
  /\ hist'.command.id = "toggle"
  /\ hist'.command.issueID = issueID

\* C25: toggleIssueExpanded for an issue without children, or one that no
\* index holds, changes nothing: not the expansion, the rows, the indexes or
\* the active section, nor the list or the selection.
C25_ToggleChildlessNoop ==
  [][\A issueID \in IssueIDs :
       (/\ ToggleStep(issueID)
        /\ \/ issueID \notin myIDToIssue \cup otherIDToIssue
           \/ ChildrenOf(issueID) = <<>>)
       => UNCHANGED <<expandedState, tableVars, issues, selectedIssue, fetchingIssueID>>]_vars

\* An issue of the list without children has been toggled.
C25_Witness ==
  /\ hist.command.id = "toggle"
  /\ hist.command.issueID \in IDsOf(issues)
  /\ hist.command.issueID \in myIDToIssue \cup otherIDToIssue
  /\ ChildrenOf(hist.command.issueID) = <<>>
  /\ hist.command.issueID \notin expandedState

\* C26: toggleIssueExpanded, expand_all and collapse_all start no refresh and
\* no detail fetch and leave the issue list, the generation, the loading flag
\* and the queued request unchanged.
C26_CommandsOnlyRebuild ==
  [][CommandStep =>
       UNCHANGED <<issues, refreshGeneration, isLoading, pendingVars, g,
                   fetchingIssueID, detailFetches>>]_vars

\* A command has expanded an issue: a row of a child is shown.
C26_Witness ==
  /\ hist.command.count > 0
  /\ expandedState # {}
  /\ \E i \in DOMAIN otherIssueRows : otherIssueRows[i].Level = 1

\* The place of an issue in a list that holds no ID twice.
IndexIn(list, id) == CHOOSE i \in DOMAIN list : list[i].id = id

\* The issues of part are issues of list, in the order list has them.
KeepsOrder(part, list) ==
  /\ IDsOf(part) \subseteq IDsOf(list)
  /\ \A a, b \in DOMAIN part :
       a < b => IndexIn(list, part[a].id) < IndexIn(list, part[b].id)

\* C27: splitIssuesByAssignee puts every issue of the list in exactly one of
\* mine and other, in mine exactly when its assignee is the user given and a
\* user is given, and each of the two keeps the order of the list.
C27_PartitionComplete ==
  LET split == splitIssuesByAssignee(issues, currentUser)
  IN /\ Len(split.mine) + Len(split.other) = Len(issues)
     /\ \A i \in DOMAIN issues :
          /\ (issues[i].id \in IDsOf(split.mine)) # (issues[i].id \in IDsOf(split.other))
          /\ (issues[i].id \in IDsOf(split.mine))
               <=> (currentUser # NoID /\ issues[i].assignee = currentUser)
     /\ KeepsOrder(split.mine, issues)
     /\ KeepsOrder(split.other, issues)
     /\ IDsOf(split.mine) \subseteq myIDToIssue
     /\ IDsOf(split.other) \subseteq otherIDToIssue

\* The tables have been rebuilt for a list of which two issues are the user's.
C27_Witness ==
  LET split == splitIssuesByAssignee(issues, currentUser)
  IN /\ hist.command.count > 0
     /\ currentUser # NoID
     /\ Len(split.mine) = MaxPageLen

\* The IDs of a list of issues, of a list of rows, in order.
IDSeq(list) == [i \in DOMAIN list |-> list[i].id]
RowIDSeq(rows) == [i \in DOMAIN rows |-> rows[i].IssueID]

\* The rows are those of the list under the expansion: the rows of depth 0
\* are, in the order of the list, its issues without a parent in the list;
\* behind the row of an expanded issue come the rows of its children, at
\* depth 1 and in the order of its references, and behind any other row
\* none.
RowsAreOf(rows, list, expanded) ==
  /\ RowIDSeq(SelectSeq(rows, LAMBDA r : r.Level = 0)) =
       IDSeq(SelectSeq(list, LAMBDA x : x.parent = NoID \/ x.parent \notin IDsOf(list)))
  /\ rows # <<>> => rows[1].Level = 0
  /\ \A k \in DOMAIN rows :
       rows[k].Level = 0 =>
         LET x == list[IndexIn(list, rows[k].IssueID)]
             n == IF x.id \in expanded THEN Len(x.children) ELSE 0
         IN /\ k + n <= Len(rows)
            /\ \A j \in 1..n : /\ rows[k + j].Level = 1
                                /\ rows[k + j].IssueID = x.children[j]
                                /\ rows[k + j].ParentID = x.id
            /\ k + n + 1 <= Len(rows) => rows[k + n + 1].Level = 0

\* C28: the rows BuildIssueRows gives for a list are one row of depth 0, in
\* the order of the list, for each issue that has no parent or whose parent
\* is not in the list, each followed, when the issue is expanded and has
\* children, by one row of depth 1 per child reference in the order of the
\* references; the tables of both sections are built so.
C28_RowsOfTree ==
  LET split == splitIssuesByAssignee(issues, currentUser)
  IN /\ RowsAreOf(BuildIssueRows(issues, expandedState).rows, issues, expandedState)
     /\ RowsAreOf(myIssueRows, split.mine, expandedState)
     /\ RowsAreOf(otherIssueRows, split.other, expandedState)

\* A section shows an expanded issue with its two children and, at depth 0,
\* an issue whose parent is not in the section.
C28_Witness ==
  /\ hist.command.count > 0
  /\ Len(SelectSeq(otherIssueRows, LAMBDA r : r.Level = 1)) = 2
  /\ \E k \in DOMAIN otherIssueRows, i \in DOMAIN issues :
       /\ otherIssueRows[k].Level = 0
       /\ issues[i].id = otherIssueRows[k].IssueID
       /\ issues[i].parent # NoID

\* The issues of the pages, one page behind the other.
RECURSIVE Concat(_)
Concat(pages) ==
  IF pages = <<>> THEN <<>> ELSE Head(pages).Issues \o Concat(Tail(pages))

\* The call has returned issues.
ClientReturned == client.pc = "done" /\ ~client.err

\* The first request is sent without a cursor and each later one with the
\* endCursor of the page before; a call that returns issues has got a page
\* with hasNextPage false, behind pages with hasNextPage true only.
RequestsFollowCursors ==
  /\ client.sent # <<>> => client.sent[1] = NoCursor
  /\ \A i \in DOMAIN client.sent :
       i > 1 => /\ i - 1 \in DOMAIN client.pages
                /\ client.sent[i] = client.pages[i - 1].EndCursor
  /\ ClientReturned =>
       /\ client.pages # <<>>
       /\ \A i \in DOMAIN client.pages :
            client.pages[i].HasNext <=> i < Len(client.pages)

\* C29: Client.FetchIssues sends its first request with after = nil and each
\* later one with the endCursor of the page before, goes on until a page
\* reports hasNextPage = false, and returns the issues of all pages, one
\* page behind the other in the order fetched.
C29_PagesConcatenated ==
  /\ RequestsFollowCursors
  /\ ClientReturned => client.result = Concat(client.pages)

\* C29, amended: the same, the issues returned being those of all pages in
\* the order fetched when params.OrderBy is not "priority", and that list
\* sorted by priority, issues of one priority in the order fetched, when it
\* is.
C29_PagesConcatenatedSorted ==
  /\ RequestsFollowCursors
  /\ ClientReturned =>
       IF client.orderBy = SortByPriority
       THEN IsStableSortOf(client.result, Concat(client.pages))
       ELSE client.result = Concat(client.pages)

\* A call has returned the issues of three pages, sorted by priority into
\* another order than fetched.
C29_Witness ==
  /\ ClientReturned
  /\ Len(client.pages) = MaxRequests
  /\ client.orderBy = SortByPriority
  /\ client.result # Concat(client.pages)

\* C30: once a page has reported hasNextPage = false the call has returned,
\* whatever endCursor the page carries: as many requests are sent as pages
\* received.
C30_StopsAtLastPage ==
  (client.pages # <<>> /\ ~client.pages[Len(client.pages)].HasNext) =>
    /\ client.pc = "done"
    /\ Len(client.sent) = Len(client.pages)

\* A call has returned on its first page, which carries a cursor.
C30_Witness ==
  /\ ClientReturned
  /\ Len(client.pages) = 1
  /\ client.pages[1].EndCursor # NoCursor
  /\ client.pages[1].Issues # <<>>

\* C31: no request for a refresh is lost.  When no goroutine of the controller
\* is left, a fetch loop was started after the last request was made, and no
\* request is pending that no loop's last update is left to start.
C31_NoRequestLost ==
  AtRest => ~hist.unserved /\ ~pendingRefresh

\* Loops in flight: started and with their last update not yet run.
InFlight == {s \in Slots : g[s].pc \in LoopPCs}

\* C32: while a fetch loop whose generation is the current one is in flight,
\* the loading flag is true; the last update of an older loop does not clear
\* it under a newer loop that is still fetching.
C32_LoadingWhileCurrent ==
  \A s \in InFlight : GenerationCurrent(s) => isLoading

\* The loop of slot s has had no update run by the event loop yet.
NothingPublished(s) == g[s].pc \in {"fetch1", "wait1", "ui_err1", "ui_stale1", "ui_first"}

\* C33: the "Loading..." status of a refresh is shown before any page, error
\* or completion status of that refresh: while it is still to be shown the
\* refresh's loop has had no update run, and once the controller is idle the
\* status bar does not read "Loading...".
C33_LoadingShownFirst ==
  /\ \A s \in Slots : g[s].loadingDue => NothingPublished(s)
  /\ Idle => statusBar # "loading"

\* C34: a first page that leaves no issue to select empties the selection,
\* and the result of a detail fetch started for the issue selected before does
\* not bring a selection back.
C34_EmptySelectionStays ==
  [][/\ \A s \in Slots :
          (AppliesFirst(s) /\ issues' = <<>>) => selectedIssue' = NoIssue
     /\ \A id \in IssueIDs :
          (DetailCompletes(id) /\ selectedIssue = NoIssue /\ issues = <<>>)
            => selectedIssue' = NoIssue]_vars

\* C35: once a detail fetch has written the full issue into the selection,
\* the merge of a later page does not put the list's version of that issue in
\* its place.
C35_MergeKeepsFullDetail ==
  [][\A s \in Slots :
       (AppliesLater(s) /\ selectedIssue.full /\ selectedIssue'.id = selectedIssue.id)
         => selectedIssue'.full]_vars

\* The merge of a later page leaves an issue selected that it finds in the
\* index it has rebuilt.
MergeKeepsSelected ==
  \A s \in Slots :
    (/\ AppliesLater(s)
     /\ selectedIssue.id # NoID
     /\ selectedIssue.id \in myIDToIssue' \cup otherIDToIssue')
      => selectedIssue'.id = selectedIssue.id

\* C36: the merge of a later page does not change which issue is selected
\* when the selected issue is in the rebuilt index, and the issue being
\* fetched is always the selected issue.
C36_MergeKeepsSelection ==
  [][/\ MergeKeepsSelected
     /\ selectedIssue'.id # NoID => fetchingIssueID' = selectedIssue'.id]_vars

\* The issue the rule names, for this target, in the tables as they are.
Chosen(targetIssueID) ==
  IF targetIssueID \in myIDToIssue \cup otherIDToIssue THEN targetIssueID
  ELSE IF myIssueRows # <<>> THEN myIssueRows[1].IssueID
  ELSE IF otherIssueRows # <<>> THEN otherIssueRows[1].IssueID
  ELSE NoID

\* A detail fetch for this issue is begun in this step.
DetailBegins(id) ==
  /\ fetchingIssueID' = id
  /\ detailFetches'[id] = detailFetches[id] + 1 \/ detailFetches[id] = MaxDetail

\* C37: the update that applies a first page selects the issue the refresh
\* was asked for or, when it was asked for none, the issue selected before,
\* if an index of the rebuilt tables holds it; else the first row of My
\* Issues, else the first row of the other issues, else nothing; and it
\* begins a detail fetch for the issue it selects.
C37_SelectionRule ==
  [][\A s \in Slots :
       AppliesFirst(s) =>
         LET target == IF g[s].issueID # NoID THEN g[s].issueID ELSE selectedIssue.id
         IN /\ selectedIssue'.id = Chosen(target)'
            /\ Chosen(target)' # NoID => DetailBegins(Chosen(target)')
            /\ Chosen(target)' = NoID => selectedIssue' = NoIssue]_vars

\* A first page applied for a user: the issue asked for is not on the page,
\* the page begins with an issue of somebody else, and the first row of My
\* Issues is selected and being fetched.
C37_Witness ==
  \E s \in Slots :
    /\ g[s].pc = "loop" /\ g[s].pageCount = 1
    /\ g[s].issueID # NoID /\ g[s].issueID \notin myIDToIssue \cup otherIDToIssue
    /\ myIssueRows # <<>> /\ otherIssueRows # <<>>
    /\ issues[1].id = otherIssueRows[1].IssueID
    /\ selectedIssue.id = myIssueRows[1].IssueID
    /\ fetchingIssueID = selectedIssue.id

\* C38: while the sort field is priority, the list every page update leaves,
\* that of a first page and that of a later one, is in the order of priority
\* 1, 2, 3, 4 and then none, issues of one priority in the order in which
\* they were fetched.
C38_SortedAfterEveryPage ==
  [][\A s \in Slots :
       sortField = SortByPriority =>
         /\ AppliesFirst(s) => IsStableSortOf(issues', PageOf(s))
         /\ AppliesLater(s) =>
              IsStableSortOf(issues', issues \o Unseen(issues, PageOf(s)))]_vars

====
